---- MODULE Spec2Model ----
(***************************************************************************)
(* The embedded-blink hardware abstraction of vitte: the three C entry     *)
(* points gpio_setup / gpio_write / sleep_ms (ffi/vitte_ffi.h) as          *)
(* implemented by the four board back ends                                 *)
(*   posix   embedded-blink/boards/posix/runner.c        (simulation)      *)
(*   stm32   examples/embedded-blink/boards/stm32f4/gpio.c (bare metal)    *)
(*   esp32   examples/embedded-blink/boards/esp32/main.c (ESP-IDF/FreeRTOS)*)
(*   rp2040  embedded-blink/boards/rp2040/vitte_ffi_rp2040.c (pico-sdk)    *)
(* Exactly one back end is linked into an image; `image` is fixed by Init. *)
(*                                                                         *)
(* 32-bit registers are modelled as the set of their set bits (a subset of *)
(* 0..31): x |= m is union, x &= ~m is set difference, 1u << n is {n}.     *)
(***************************************************************************)
EXTENDS Integers, Sequences, FiniteSets, TLC

VARIABLES
    image,          \* which back end this image was linked with
    calls,          \* history: the contract calls made so far, oldest first
    pre,            \* history: the gpio state as it was before the last call
    halted,         \* the image stopped in an SDK parameter assertion
    g_pin,          \* posix: static int g_pin
    g_state,        \* posix: static int g_state
    out,            \* posix: the lines written to stdout, oldest first
    led_pin,        \* stm32 / esp32 / rp2040: static led_pin
    RCC_AHB1ENR,    \* stm32: clock-enable register (set of set bits)
    GPIOD_MODER,    \* stm32: port D mode register (set of set bits)
    GPIOD_ODR,      \* stm32: port D output latch, as driven through BSRR
    regwrites,      \* stm32: every register store, in program order
    drv_oe,         \* esp32 / rp2040: pins whose output driver is enabled
    drv_out,        \* esp32 / rp2040: pins whose output latch is high
    pc,             \* sleep_ms: "idle", "sleeping", "returned" or "fault"
    ms,             \* sleep_ms: the argument of the call in progress
    ts,             \* posix sleep_ms: the struct timespec handed to nanosleep
    ticks,          \* esp32 sleep_ms: the tick count handed to vTaskDelay
    n,              \* stm32 sleep_ms: the busy-wait counter, <<high16, low16>>
    spins,          \* stm32 sleep_ms: history, nop iterations executed
    depth,          \* rp2040 sleep_ms: nested activations of sleep_ms
    portTICK_PERIOD_MS, \* esp32: milliseconds per FreeRTOS tick (build config)
    tailcall,       \* rp2040: the compiler turned the self call into a jump
    lp,             \* main: the statement of the driver loop to run next, or
                    \* "none" when the entry points are called by a runtime
    argv,           \* posix main: the command-line arguments after argv[0]
    period          \* main: the blink period in milliseconds

gpiovars == <<calls, pre, halted, g_pin, g_state, out, led_pin, RCC_AHB1ENR,
              GPIOD_MODER, GPIOD_ODR, regwrites, drv_oe, drv_out>>
delayvars == <<pc, ms, ts, ticks, n, spins, depth>>
vars == <<image, gpiovars, delayvars, portTICK_PERIOD_MS, tailcall, lp, argv,
          period>>

----------------------------------------------------------------------------
(* Bounds and input sets *)

\* at most this many gpio_setup / gpio_write calls are recorded in a behaviour
MaxCalls == 4

\* rp2040 sleep_ms: activations that fit on the stack before it overflows
MaxStack == 3

Images == {"posix", "stm32", "esp32", "rp2040"}

\* pin arguments: two valid lines and one no board has (ESP32 has GPIO 0..39,
\* RP2040 has GPIO 0..29)
Pins == {12, 13, 40}

\* level arguments: int value, so not only 0 and 1
Levels == {0, 1, 2}

Last(s) == s[Len(s)]

----------------------------------------------------------------------------
(* Bit fields *)

\* v << k of a 32-bit unsigned value: bits shifted out at the top are lost
Shl(bits, k) == {b + k : b \in bits} \cap (0..31)

\* the literals 1u and 3u
One == {0}
Three == {0, 1}

\* the LED line of the STM32F4 Discovery, GPIOD12
LED == 12

----------------------------------------------------------------------------
(* History bookkeeping shared by the gpio entry points *)

\* the gpio state of the image, as one value
Hw == [g_pin |-> g_pin, g_state |-> g_state, out |-> out, led_pin |-> led_pin,
       RCC_AHB1ENR |-> RCC_AHB1ENR, GPIOD_MODER |-> GPIOD_MODER,
       GPIOD_ODR |-> GPIOD_ODR, regwrites |-> regwrites,
       drv_oe |-> drv_oe, drv_out |-> drv_out]

Call(op, pin, value) == [op |-> op, pin |-> pin, value |-> value]

\* the pin main passes to the entry points
MainPin ==
    CASE image = "esp32"  -> led_pin
      [] image = "rp2040" -> 25
      [] OTHER            -> 12

\* the gpio call main makes at statement pos of its loop
MainCall(pos) ==
    CASE pos = "setup" -> Call("setup", MainPin, 0)
      [] pos = "on"    -> Call("write", MainPin, 1)
      [] pos = "off"   -> Call("write", MainPin, 0)
      [] OTHER         -> Call("none", 0, 0)

\* the statement of main that follows statement pos: gpio_setup once, then
\* for (;;) { gpio_write(on); sleep_ms; gpio_write(off); sleep_ms; }
AfterLp(pos) ==
    CASE pos = "start"     -> "setup"
      [] pos = "setup"     -> "on"
      [] pos = "on"        -> "sleep_on"
      [] pos = "sleep_on"  -> "off"
      [] pos = "off"       -> "sleep_off"
      [] pos = "sleep_off" -> "on"
      [] OTHER             -> pos

\* a log after more entries: kept whole while a runtime makes a bounded
\* number of calls; a driver loop runs forever, and of its log only what the
\* latest call wrote is kept
Log(log, entries) == IF lp = "none" THEN log \o entries ELSE entries

\* a gpio entry point is entered: the image runs, the caller is at this call
\* (a runtime makes any call, main the one its next statement makes), and
\* the call is recorded
Enter(img, op, pin, value) ==
    /\ image = img
    /\ ~halted
    /\ pc # "sleeping" /\ pc # "fault"
    /\ IF lp = "none"
         THEN /\ Len(calls) < MaxCalls
              /\ calls' = Append(calls, Call(op, pin, value))
         ELSE /\ MainCall(lp) = Call(op, pin, value)
              /\ calls' = <<Call(op, pin, value)>>
    /\ lp' = AfterLp(lp)
    /\ pre' = Hw

----------------------------------------------------------------------------
(* posix/runner.c *)

\* fprintf(stdout, "[posix] gpio_setup(pin=%d)\n", pin)
SetupLine(pin) == [kind |-> "setup", pin |-> pin, text |-> ""]

\* fprintf(stdout, "LED[%d] = %s\n", g_pin, g_state ? "ON" : "OFF")
LedLine(pin, state) ==
    [kind |-> "LED", pin |-> pin, text |-> IF state # 0 THEN "ON" ELSE "OFF"]

\* gpio_setup as it would be without the reset of g_state
posix_gpio_setup_keeps_level(pin) ==
    /\ Enter("posix", "setup", pin, 0)
    /\ g_pin' = pin
    /\ out' = Log(out, <<SetupLine(pin)>>)
    /\ UNCHANGED <<halted, g_state, led_pin, RCC_AHB1ENR, GPIOD_MODER,
                   GPIOD_ODR, regwrites, drv_oe, drv_out>>
    /\ UNCHANGED <<image, delayvars, portTICK_PERIOD_MS, tailcall,
                     argv, period>>

\* gpio_setup as it would be if it also reported the level it forces
posix_gpio_setup_reports_off(pin) ==
    /\ Enter("posix", "setup", pin, 0)
    /\ g_pin' = pin
    /\ g_state' = 0
    /\ out' = Log(out, <<SetupLine(pin), LedLine(pin, 0)>>)
    /\ UNCHANGED <<halted, led_pin, RCC_AHB1ENR, GPIOD_MODER, GPIOD_ODR,
                   regwrites, drv_oe, drv_out>>
    /\ UNCHANGED <<image, delayvars, portTICK_PERIOD_MS, tailcall,
                     argv, period>>

posix_gpio_setup(pin) ==
    /\ Enter("posix", "setup", pin, 0)
    /\ g_pin' = pin
    /\ g_state' = 0
    /\ out' = Log(out, <<SetupLine(pin)>>)
    /\ UNCHANGED <<halted, led_pin, RCC_AHB1ENR, GPIOD_MODER, GPIOD_ODR,
                   regwrites, drv_oe, drv_out>>
    /\ UNCHANGED <<image, delayvars, portTICK_PERIOD_MS, tailcall,
                     argv, period>>

\* gpio_write as it would be if a differing level flipped g_state
posix_gpio_write_toggles(pin, value) ==
    /\ Enter("posix", "write", pin, value)
    /\ IF value # g_state
         THEN /\ g_state' = (IF g_state # 0 THEN 0 ELSE 1)
              /\ out' = Log(out, <<LedLine(g_pin, g_state')>>)
         ELSE UNCHANGED <<g_state, out>>
    /\ UNCHANGED <<halted, g_pin, led_pin, RCC_AHB1ENR, GPIOD_MODER, GPIOD_ODR,
                   regwrites, drv_oe, drv_out>>
    /\ UNCHANGED <<image, delayvars, portTICK_PERIOD_MS, tailcall,
                     argv, period>>

\* gpio_write as it would be without the comparison with g_state
posix_gpio_write_every_call(pin, value) ==
    /\ Enter("posix", "write", pin, value)
    /\ g_state' = value
    /\ out' = Log(out, <<LedLine(g_pin, value)>>)
    /\ UNCHANGED <<halted, g_pin, led_pin, RCC_AHB1ENR, GPIOD_MODER, GPIOD_ODR,
                   regwrites, drv_oe, drv_out>>
    /\ UNCHANGED <<image, delayvars, portTICK_PERIOD_MS, tailcall,
                     argv, period>>

posix_gpio_write(pin, value) ==
    /\ Enter("posix", "write", pin, value)
    /\ IF value # g_state
         THEN /\ g_state' = value
              /\ out' = Log(out, <<LedLine(g_pin, value)>>)
         ELSE UNCHANGED <<g_state, out>>
    /\ UNCHANGED <<halted, g_pin, led_pin, RCC_AHB1ENR, GPIOD_MODER, GPIOD_ODR,
                   regwrites, drv_oe, drv_out>>
    /\ UNCHANGED <<image, delayvars, portTICK_PERIOD_MS, tailcall,
                     argv, period>>

----------------------------------------------------------------------------
(* stm32f4/gpio.c *)

\* one store to a memory-mapped register, as seen on the bus
Store(reg, val) == [reg |-> reg, val |-> val]

\* the port's output latch after a store to BSRR: bits 0..15 set the line of
\* the same number, bits 16..31 reset line (bit - 16); set wins over reset
BsrrApply(odr, bsrr) ==
    (odr \ {b - 16 : b \in {x \in bsrr : x >= 16}}) \cup {b \in bsrr : b < 16}

\* a store to a GPIOD register reaches the port when its clock runs; with
\* the clock gated the effect of the store is undefined: taken or dropped
StoreTaken(rcc) == IF 3 \in rcc THEN {TRUE} ELSE {TRUE, FALSE}

\* gpio_setup as it would be with the mode stores ahead of the clock enable
stm32_gpio_setup_mode_first(pin) ==
    LET rcc   == RCC_AHB1ENR \cup Shl(One, 3)
        clr   == GPIOD_MODER \ Shl(Three, LED * 2)
        mode  == clr \cup Shl(One, LED * 2)
        bsrr  == Shl(One, LED + 16)
    IN  /\ Enter("stm32", "setup", pin, 0)
        /\ led_pin' = LED
        /\ RCC_AHB1ENR' = rcc
        /\ GPIOD_MODER' = mode
        /\ GPIOD_ODR' = BsrrApply(GPIOD_ODR, bsrr)
        /\ regwrites' = Log(regwrites,
              << Store("GPIOD_MODER", clr), Store("GPIOD_MODER", mode),
                 Store("RCC_AHB1ENR", rcc), Store("GPIOD_BSRR", bsrr) >>)
        /\ UNCHANGED <<halted, g_pin, g_state, out, drv_oe, drv_out>>
        /\ UNCHANGED <<image, delayvars, portTICK_PERIOD_MS, tailcall,
                     argv, period>>

\* gpio_setup as it would be with GPIOD_MODER ^= (1u << (12*2)) for the mode
stm32_gpio_setup_flips_mode(pin) ==
    LET rcc   == RCC_AHB1ENR \cup Shl(One, 3)
        field == Shl(One, LED * 2)
        mode  == (GPIOD_MODER \ field) \cup (field \ GPIOD_MODER)
        bsrr  == Shl(One, LED + 16)
    IN  /\ Enter("stm32", "setup", pin, 0)
        /\ led_pin' = LED
        /\ RCC_AHB1ENR' = rcc
        /\ GPIOD_MODER' = mode
        /\ GPIOD_ODR' = BsrrApply(GPIOD_ODR, bsrr)
        /\ regwrites' = Log(regwrites,
              << Store("RCC_AHB1ENR", rcc), Store("GPIOD_MODER", mode),
                 Store("GPIOD_BSRR", bsrr) >>)
        /\ UNCHANGED <<halted, g_pin, g_state, out, drv_oe, drv_out>>
        /\ UNCHANGED <<image, delayvars, portTICK_PERIOD_MS, tailcall,
                     argv, period>>

stm32_gpio_setup(pin) ==
    LET rcc   == RCC_AHB1ENR \cup Shl(One, 3)
        clr   == GPIOD_MODER \ Shl(Three, LED * 2)
        mode  == clr \cup Shl(One, LED * 2)
        bsrr  == Shl(One, LED + 16)
    IN  /\ Enter("stm32", "setup", pin, 0)
        /\ led_pin' = LED
        /\ RCC_AHB1ENR' = rcc
        /\ GPIOD_MODER' = mode
        /\ GPIOD_ODR' = BsrrApply(GPIOD_ODR, bsrr)
        /\ regwrites' = Log(regwrites,
              << Store("RCC_AHB1ENR", rcc), Store("GPIOD_MODER", clr),
                 Store("GPIOD_MODER", mode), Store("GPIOD_BSRR", bsrr) >>)
        /\ UNCHANGED <<halted, g_pin, g_state, out, drv_oe, drv_out>>
        /\ UNCHANGED <<image, delayvars, portTICK_PERIOD_MS, tailcall,
                     argv, period>>

\* gpio_write as it would be if it set the line for level 1 only
stm32_gpio_write_only_one(pin, value) ==
    LET bsrr == IF value = 1 THEN Shl(One, LED) ELSE Shl(One, LED + 16)
    IN  /\ Enter("stm32", "write", pin, value)
        /\ \E taken \in StoreTaken(RCC_AHB1ENR) :
              GPIOD_ODR' = IF taken THEN BsrrApply(GPIOD_ODR, bsrr)
                                    ELSE GPIOD_ODR
        /\ regwrites' = Log(regwrites, <<Store("GPIOD_BSRR", bsrr)>>)
        /\ UNCHANGED <<halted, g_pin, g_state, out, led_pin, RCC_AHB1ENR,
                       GPIOD_MODER, drv_oe, drv_out>>
        /\ UNCHANGED <<image, delayvars, portTICK_PERIOD_MS, tailcall,
                     argv, period>>

\* gpio_write as it would be with the reset bit one place short of the port
\* width (12 + 15)
stm32_gpio_write_short_offset(pin, value) ==
    LET bsrr == IF value # 0 THEN Shl(One, LED) ELSE Shl(One, LED + 15)
    IN  /\ Enter("stm32", "write", pin, value)
        /\ \E taken \in StoreTaken(RCC_AHB1ENR) :
              GPIOD_ODR' = IF taken THEN BsrrApply(GPIOD_ODR, bsrr)
                                    ELSE GPIOD_ODR
        /\ regwrites' = Log(regwrites, <<Store("GPIOD_BSRR", bsrr)>>)
        /\ UNCHANGED <<halted, g_pin, g_state, out, led_pin, RCC_AHB1ENR,
                       GPIOD_MODER, drv_oe, drv_out>>
        /\ UNCHANGED <<image, delayvars, portTICK_PERIOD_MS, tailcall,
                     argv, period>>

stm32_gpio_write(pin, value) ==
    LET bsrr == IF value # 0 THEN Shl(One, LED) ELSE Shl(One, LED + 16)
    IN  /\ Enter("stm32", "write", pin, value)
        /\ \E taken \in StoreTaken(RCC_AHB1ENR) :
              GPIOD_ODR' = IF taken THEN BsrrApply(GPIOD_ODR, bsrr)
                                    ELSE GPIOD_ODR
        /\ regwrites' = Log(regwrites, <<Store("GPIOD_BSRR", bsrr)>>)
        /\ UNCHANGED <<halted, g_pin, g_state, out, led_pin, RCC_AHB1ENR,
                       GPIOD_MODER, drv_oe, drv_out>>
        /\ UNCHANGED <<image, delayvars, portTICK_PERIOD_MS, tailcall,
                     argv, period>>

----------------------------------------------------------------------------
(* esp32/main.c, on the ESP-IDF gpio driver *)

\* GPIO_IS_VALID_OUTPUT_GPIO: GPIO 0..33 can be outputs (34..39 are inputs)
Esp32OutputPin(pin) == pin \in 0..33

\* gpio_config with .mode = GPIO_MODE_OUTPUT and pin_bit_mask = 1ULL << pin:
\* enables the output driver, or returns ESP_ERR_INVALID_ARG and does nothing
esp_gpio_config(oe, pin) == IF Esp32OutputPin(pin) THEN oe \cup {pin} ELSE oe

\* gpio_set_level: sets or clears the pin's output latch, or returns
\* ESP_ERR_INVALID_ARG and does nothing
esp_gpio_set_level(latch, pin, level) ==
    IF ~Esp32OutputPin(pin) THEN latch
    ELSE IF level # 0 THEN latch \cup {pin} ELSE latch \ {pin}

esp32_gpio_setup(pin) ==
    /\ Enter("esp32", "setup", pin, 0)
    /\ led_pin' = pin
    /\ drv_oe' = esp_gpio_config(drv_oe, pin)
    /\ drv_out' = esp_gpio_set_level(drv_out, pin, 0)
    /\ UNCHANGED <<halted, g_pin, g_state, out, RCC_AHB1ENR, GPIOD_MODER,
                   GPIOD_ODR, regwrites>>
    /\ UNCHANGED <<image, delayvars, portTICK_PERIOD_MS, tailcall,
                     argv, period>>

esp32_gpio_write(pin, value) ==
    /\ Enter("esp32", "write", pin, value)
    /\ drv_out' = esp_gpio_set_level(drv_out, led_pin, IF value # 0 THEN 1 ELSE 0)
    /\ UNCHANGED <<halted, g_pin, g_state, out, led_pin, RCC_AHB1ENR,
                   GPIOD_MODER, GPIOD_ODR, regwrites, drv_oe>>
    /\ UNCHANGED <<image, delayvars, portTICK_PERIOD_MS, tailcall,
                     argv, period>>

----------------------------------------------------------------------------
(* rp2040/vitte_ffi_rp2040.c, on the pico-sdk *)

\* NUM_BANK0_GPIOS: the RP2040 has GPIO 0..29
Rp2040Pin(pin) == pin \in 0..29

\* gpio_put: sets or clears the pin's output latch
pico_gpio_put(latch, pin, level) ==
    IF ~Rp2040Pin(pin) THEN latch
    ELSE IF level # 0 THEN latch \cup {pin} ELSE latch \ {pin}

\* what an SDK call with a pin the chip does not have can do: stop in the
\* SDK's parameter assertion (TRUE), or go on without touching any line
PicoBadPin(pin) == IF Rp2040Pin(pin) THEN {FALSE} ELSE {TRUE, FALSE}

rp2040_gpio_setup(pin) ==
    /\ Enter("rp2040", "setup", pin, 0)
    /\ led_pin' = pin
    /\ \E stop \in PicoBadPin(pin) :
          /\ halted' = stop
          /\ IF stop \/ ~Rp2040Pin(pin)
               THEN UNCHANGED <<drv_oe, drv_out>>
               ELSE \* gpio_init; gpio_set_dir(GPIO_OUT); gpio_put(0)
                    /\ drv_oe' = drv_oe \cup {pin}
                    /\ drv_out' = pico_gpio_put(drv_out, pin, 0)
    /\ UNCHANGED <<g_pin, g_state, out, RCC_AHB1ENR, GPIOD_MODER,
                   GPIOD_ODR, regwrites>>
    /\ UNCHANGED <<image, delayvars, portTICK_PERIOD_MS, tailcall,
                     argv, period>>

rp2040_gpio_write(pin, value) ==
    /\ Enter("rp2040", "write", pin, value)
    /\ \E stop \in PicoBadPin(led_pin) :
          /\ halted' = stop
          /\ drv_out' = IF stop THEN drv_out
                        ELSE pico_gpio_put(drv_out, led_pin,
                                           IF value # 0 THEN 1 ELSE 0)
    /\ UNCHANGED <<g_pin, g_state, out, led_pin, RCC_AHB1ENR, GPIOD_MODER,
                   GPIOD_ODR, regwrites, drv_oe>>
    /\ UNCHANGED <<image, delayvars, portTICK_PERIOD_MS, tailcall,
                     argv, period>>

----------------------------------------------------------------------------
(* The image after start-up, and the gpio specification *)

\* the static initialisers of the image's back end
InitLedPin(img) ==
    CASE img = "stm32"  -> 12
      [] img = "esp32"  -> 2
      [] img = "rp2040" -> 25
      [] OTHER          -> 0

\* values of RCC_AHB1ENR and GPIOD_MODER the part can hold when main starts:
\* the reset values differ between the parts the source says it is adapted to
ResetRegs == { [rcc |-> {}, moder |-> {}], [rcc |-> {20}, moder |-> {24, 25}] }

DelayIdle ==
    /\ pc = "idle"
    /\ ms = 0
    /\ ts = [tv_sec |-> 0, tv_nsec |-> 0]
    /\ ticks = 0
    /\ n = <<0, 0>>
    /\ spins = 0
    /\ depth = 0

GpioInit ==
    /\ image \in Images
    /\ calls = <<>>
    /\ halted = FALSE
    /\ g_pin = 12
    /\ g_state = 0
    /\ out = <<>>
    /\ led_pin = InitLedPin(image)
    /\ \E r \in (IF image = "stm32" THEN ResetRegs
                                      ELSE {[rcc |-> {}, moder |-> {}]}) :
          /\ RCC_AHB1ENR = r.rcc
          /\ GPIOD_MODER = r.moder
    /\ GPIOD_ODR = {}
    /\ regwrites = <<>>
    /\ drv_oe = {}
    /\ drv_out = {}
    /\ pre = Hw

\* no driver loop in the image: a runtime calls the entry points
NoMain ==
    /\ lp = "none"
    /\ argv = <<>>
    /\ period = 0

Init ==
    /\ GpioInit
    /\ DelayIdle
    /\ NoMain
    /\ portTICK_PERIOD_MS = 10
    /\ tailcall = FALSE

Next ==
    \/ \E pin \in Pins : posix_gpio_setup(pin)
    \/ \E pin \in Pins, value \in Levels : posix_gpio_write(pin, value)
    \/ \E pin \in Pins : stm32_gpio_setup(pin)
    \/ \E pin \in Pins, value \in Levels : stm32_gpio_write(pin, value)
    \/ \E pin \in Pins : esp32_gpio_setup(pin)
    \/ \E pin \in Pins, value \in Levels : esp32_gpio_write(pin, value)
    \/ \E pin \in Pins : rp2040_gpio_setup(pin)
    \/ \E pin \in Pins, value \in Levels : rp2040_gpio_write(pin, value)

Spec == Init /\ [][Next]_vars

----------------------------------------------------------------------------
(* sleep_ms *)

\* durations asked of sleep_ms, in milliseconds
Durations == {0, 1, 3, 268436}

\* FreeRTOS tick periods an ESP-IDF build can be configured with (1000 Hz
\* and the default 100 Hz)
TickPeriods == {1, 10}

\* the iterations the busy-wait makes per millisecond
CyclesPerMs == 16000

\* C integer division and remainder: the quotient is truncated towards zero
CDiv(a, b) == IF a >= 0 THEN a \div b ELSE -((-a) \div b)
CMod(a, b) == a - b * CDiv(a, b)

\* an unsigned 32-bit value is kept as <<high 16 bits, low 16 bits>>
\* (uint32_t)i of an int i
U32(i) == IF i >= 0 THEN <<i \div 65536, i % 65536>>
          ELSE <<65535 - ((-i - 1) \div 65536), 65535 - ((-i - 1) % 65536)>>

\* u * k modulo 2^32, for k < 2^15
MulU32(u, k) ==
    LET low == u[2] * k
    IN  <<(u[1] * k + low \div 65536) % 65536, low % 65536>>

\* u - 1 modulo 2^32
DecU32(u) == IF u[2] > 0 THEN <<u[1], u[2] - 1>>
             ELSE IF u[1] > 0 THEN <<u[1] - 1, 65535>>
             ELSE <<65535, 65535>>

\* sleep_ms is entered with argument d
EnterSleep(img, d) ==
    /\ image = img
    /\ pc \in {"idle", "returned"}
    /\ lp = "none" \/ (lp \in {"sleep_on", "sleep_off"} /\ d = period)
    /\ lp' = AfterLp(lp)
    /\ pc' = "sleeping"
    /\ ms' = d

\* posix: the timespec is filled in and nanosleep is called
posix_sleep_ms(d) ==
    /\ EnterSleep("posix", d)
    /\ ts' = [tv_sec |-> CDiv(d, 1000), tv_nsec |-> CMod(d, 1000) * 1000000]
    /\ UNCHANGED <<ticks, n, spins, depth>>
    /\ UNCHANGED <<image, gpiovars, portTICK_PERIOD_MS, tailcall,
                     argv, period>>

\* posix: nanosleep returns, and sleep_ms with it
posix_sleep_return ==
    /\ image = "posix" /\ pc = "sleeping"
    /\ pc' = "returned"
    /\ UNCHANGED <<ms, ts, ticks, n, spins, depth>>
    /\ UNCHANGED <<image, gpiovars, portTICK_PERIOD_MS, tailcall,
                     argv, period, lp>>

\* esp32: vTaskDelay(ms / portTICK_PERIOD_MS) is called
esp32_sleep_ms(d) ==
    /\ EnterSleep("esp32", d)
    /\ ticks' = CDiv(d, portTICK_PERIOD_MS)
    /\ UNCHANGED <<ts, n, spins, depth>>
    /\ UNCHANGED <<image, gpiovars, portTICK_PERIOD_MS, tailcall,
                     argv, period>>

\* esp32: the scheduler wakes the task after the ticks asked for
esp32_sleep_return ==
    /\ image = "esp32" /\ pc = "sleeping"
    /\ pc' = "returned"
    /\ UNCHANGED <<ms, ts, ticks, n, spins, depth>>
    /\ UNCHANGED <<image, gpiovars, portTICK_PERIOD_MS, tailcall,
                     argv, period, lp>>

\* stm32: volatile uint32_t n = (uint32_t)ms * 16000u
stm32_sleep_ms(d) ==
    /\ EnterSleep("stm32", d)
    /\ n' = MulU32(U32(d), CyclesPerMs)
    /\ spins' = 0
    /\ UNCHANGED <<ts, ticks, depth>>
    /\ UNCHANGED <<image, gpiovars, portTICK_PERIOD_MS, tailcall,
                     argv, period>>

\* stm32: one turn of while (n--) nop, n being non-zero
stm32_sleep_spin ==
    /\ image = "stm32" /\ pc = "sleeping"
    /\ n # <<0, 0>>
    /\ n' = DecU32(n)
    /\ spins' = spins + 1
    /\ UNCHANGED <<pc, ms, ts, ticks, depth>>
    /\ UNCHANGED <<image, gpiovars, portTICK_PERIOD_MS, tailcall,
                     argv, period, lp>>

\* stm32: while (n--) finds n zero (and still decrements it), sleep_ms returns
stm32_sleep_return ==
    /\ image = "stm32" /\ pc = "sleeping"
    /\ n = <<0, 0>>
    /\ n' = DecU32(n)
    /\ pc' = "returned"
    /\ UNCHANGED <<ms, ts, ticks, spins, depth>>
    /\ UNCHANGED <<image, gpiovars, portTICK_PERIOD_MS, tailcall,
                     argv, period, lp>>

\* rp2040: sleep_ms is entered from its caller
rp2040_sleep_ms(d) ==
    /\ EnterSleep("rp2040", d)
    /\ depth' = 1
    /\ UNCHANGED <<ts, ticks, n, spins>>
    /\ UNCHANGED <<image, gpiovars, portTICK_PERIOD_MS, tailcall,
                     argv, period>>

\* rp2040: the body of sleep_ms calls sleep_ms(ms). Compiled as a jump the
\* call re-enters the function in place; compiled as a call it pushes one
\* more activation, until the stack is exhausted and the core faults
rp2040_sleep_call ==
    /\ image = "rp2040" /\ pc = "sleeping"
    /\ IF tailcall THEN UNCHANGED <<pc, depth>>
       ELSE IF depth < MaxStack THEN depth' = depth + 1 /\ UNCHANGED pc
       ELSE pc' = "fault" /\ UNCHANGED depth
    /\ UNCHANGED <<ms, ts, ticks, n, spins>>
    /\ UNCHANGED <<image, gpiovars, portTICK_PERIOD_MS, tailcall,
                     argv, period, lp>>

DelayInit ==
    /\ GpioInit
    /\ DelayIdle
    /\ NoMain
    /\ portTICK_PERIOD_MS \in (IF image = "esp32" THEN TickPeriods ELSE {10})
    /\ tailcall \in (IF image = "rp2040" THEN BOOLEAN ELSE {FALSE})

\* a call of sleep_ms in progress goes on
DelayStep ==
    \/ posix_sleep_return
    \/ esp32_sleep_return
    \/ stm32_sleep_spin
    \/ stm32_sleep_return
    \/ rp2040_sleep_call

DelayNext ==
    \/ \E d \in Durations : posix_sleep_ms(d)
    \/ \E d \in Durations : esp32_sleep_ms(d)
    \/ \E d \in Durations : stm32_sleep_ms(d)
    \/ \E d \in Durations : rp2040_sleep_ms(d)
    \/ DelayStep

\* the processor keeps executing the call in progress
DelaySpec == DelayInit /\ [][DelayNext]_vars /\ WF_vars(DelayStep)

----------------------------------------------------------------------------
(* The driver loops: main of runner.c, gpio.c and vitte_ffi_rp2040.c, and
   app_main of esp32/main.c *)

\* argv[1] of the simulation, when there is one: a string, as its characters
Args == { <<"2", "5", "0">>, <<"0">>, <<"1">>, <<"-", "5">>, <<"+", "7">>,
          <<" ", "9">>, <<"x">>, <<"1", "2", "x">> }

Digits == <<"0", "1", "2", "3", "4", "5", "6", "7", "8", "9">>

IsDigit(c) == \E i \in 1..10 : Digits[i] = c
DigitVal(c) == (CHOOSE i \in 1..10 : Digits[i] = c) - 1

\* the value of the longest prefix of str made of digits, after acc
RECURSIVE AtoiDigits(_, _)
AtoiDigits(str, acc) ==
    IF str = <<>> \/ ~IsDigit(Head(str)) THEN acc
    ELSE AtoiDigits(Tail(str), acc * 10 + DigitVal(Head(str)))

RECURSIVE SkipSpace(_)
SkipSpace(str) ==
    IF str # <<>> /\ Head(str) = " " THEN SkipSpace(Tail(str)) ELSE str

\* atoi: white space, an optional sign, then digits up to the first
\* character that is none; 0 when there is no digit
atoi(str) ==
    LET t == SkipSpace(str)
    IN  IF t = <<>> THEN 0
        ELSE IF Head(t) = "-" THEN -AtoiDigits(Tail(t), 0)
        ELSE IF Head(t) = "+" THEN AtoiDigits(Tail(t), 0)
        ELSE AtoiDigits(t, 0)

\* posix main: int period = 500; if (argc > 1) period = atoi(argv[1]);
posix_main ==
    /\ image = "posix" /\ lp = "start"
    /\ period' = IF Len(argv) > 0 THEN atoi(argv[1]) ELSE 500
    /\ lp' = AfterLp(lp)
    /\ UNCHANGED <<image, gpiovars, delayvars, portTICK_PERIOD_MS, tailcall,
                   argv>>

\* rp2040 main: stdio_init_all()
rp2040_main ==
    /\ image = "rp2040" /\ lp = "start"
    /\ lp' = AfterLp(lp)
    /\ UNCHANGED <<image, gpiovars, delayvars, portTICK_PERIOD_MS, tailcall,
                   argv, period>>

\* stm32: every remaining turn of while (n--) nop, n being non-zero, at once
stm32_sleep_spin_out ==
    /\ image = "stm32" /\ pc = "sleeping"
    /\ n # <<0, 0>>
    /\ n' = <<0, 0>>
    /\ spins' = spins + n[1] * 65536 + n[2]
    /\ UNCHANGED <<pc, ms, ts, ticks, depth>>
    /\ UNCHANGED <<image, gpiovars, portTICK_PERIOD_MS, tailcall,
                   argv, period, lp>>

\* main is about to run: the simulation and the rp2040 image start with a
\* statement of their own, the other two with gpio_setup; the period is the
\* literal 500 except in the simulation, which may replace it
LoopInit ==
    /\ GpioInit
    /\ DelayIdle
    /\ portTICK_PERIOD_MS \in (IF image = "esp32" THEN TickPeriods ELSE {10})
    /\ tailcall \in (IF image = "rp2040" THEN BOOLEAN ELSE {FALSE})
    /\ lp = IF image \in {"posix", "rp2040"} THEN "start" ELSE "setup"
    /\ argv \in (IF image = "posix" THEN {<<>>} \cup {<<a>> : a \in Args}
                                    ELSE {<<>>})
    /\ period = 500

LoopNext ==
    \/ posix_main
    \/ posix_gpio_setup(12)
    \/ \E value \in {0, 1} : posix_gpio_write(12, value)
    \/ posix_sleep_ms(period)
    \/ posix_sleep_return
    \/ stm32_gpio_setup(12)
    \/ \E value \in {0, 1} : stm32_gpio_write(12, value)
    \/ stm32_sleep_ms(500)
    \/ stm32_sleep_spin_out
    \/ stm32_sleep_return
    \/ esp32_gpio_setup(led_pin)
    \/ \E value \in {0, 1} : esp32_gpio_write(led_pin, value)
    \/ esp32_sleep_ms(500)
    \/ esp32_sleep_return
    \/ rp2040_main
    \/ rp2040_gpio_setup(25)
    \/ \E value \in {0, 1} : rp2040_gpio_write(25, value)
    \/ rp2040_sleep_ms(500)
    \/ rp2040_sleep_call

\* the processor keeps executing main
LoopSpec == LoopInit /\ [][LoopNext]_vars /\ WF_vars(LoopNext)

----------------------------------------------------------------------------
(* Vocabulary of the claims, read off the state and the call history *)

LastCall == Last(calls)

\* the index in calls of the most recent gpio_setup, 0 when there was none
LastSetup ==
    LET idx == {i \in 1..Len(calls) : calls[i].op = "setup"}
    IN  IF idx = {} THEN 0 ELSE CHOOSE i \in idx : \A j \in idx : j <= i

\* pin identities the image's board resolves to a line it can drive
ValidPin(pin) ==
    CASE image = "posix"  -> TRUE
      [] image = "stm32"  -> pin = LED
      [] image = "esp32"  -> Esp32OutputPin(pin)
      [] image = "rp2040" -> Rp2040Pin(pin)

\* the image's line was configured, by a gpio_setup of a valid pin
Configured == LastSetup > 0 /\ ValidPin(calls[LastSetup].pin)

\* the Logical Line State in gpio state h: asserted (TRUE) or deasserted
AssertedIn(h) ==
    CASE image = "posix" -> h.g_state # 0
      [] image = "stm32" -> LED \in h.GPIOD_ODR
      [] OTHER           -> h.led_pin \in h.drv_out

Asserted == AssertedIn(Hw)

\* the line is an enabled output in gpio state h
OutputIn(h) ==
    CASE image = "posix" -> TRUE
      [] image = "stm32" -> /\ 3 \in h.RCC_AHB1ENR
                            /\ (LED * 2) \in h.GPIOD_MODER
                            /\ (LED * 2 + 1) \notin h.GPIOD_MODER
      [] OTHER           -> h.led_pin \in h.drv_oe

\* the part of the gpio state the contract calls a pin's state: everything
\* but the two logs (stdout, and the record of register stores)
StateOf(h) == [g_pin |-> h.g_pin, g_state |-> h.g_state, led_pin |-> h.led_pin,
               RCC_AHB1ENR |-> h.RCC_AHB1ENR, GPIOD_MODER |-> h.GPIOD_MODER,
               GPIOD_ODR |-> h.GPIOD_ODR, drv_oe |-> h.drv_oe,
               drv_out |-> h.drv_out]

\* the lines the last call wrote to stdout
Emitted == SubSeq(out, Len(pre.out) + 1, Len(out))

\* the register stores the last call made
Stored == SubSeq(regwrites, Len(pre.regwrites) + 1, Len(regwrites))

----------------------------------------------------------------------------
(* C1: on every back end, from every prior pin state, the state right after
   gpio_setup(p) of a valid pin p is Configured(Deasserted): the simulation
   tracks pin p at level 0, the register back end's last store drove the
   line low with the line an output, and the SDK back ends enabled the
   output of p and left its latch low. *)
C1_SetupDeasserts ==
    (calls # <<>> /\ LastCall.op = "setup" /\ ValidPin(LastCall.pin) /\ ~halted)
    => /\ ~Asserted
       /\ OutputIn(Hw)
       /\ image = "posix" => g_state = 0 /\ g_pin = LastCall.pin
       /\ image = "stm32" => /\ Last(regwrites) = Store("GPIOD_BSRR", {LED + 16})
                             /\ LED \notin GPIOD_ODR
       /\ image \in {"esp32", "rp2040"} =>
             /\ led_pin = LastCall.pin
             /\ LastCall.pin \in drv_oe /\ LastCall.pin \notin drv_out

\* a gpio_setup of a valid pin made while the line was asserted
C1_Witness ==
    /\ calls # <<>> /\ LastCall.op = "setup" /\ ValidPin(LastCall.pin)
    /\ AssertedIn(pre)
    /\ OutputIn(pre)

(* C2: last write wins: after a gpio_write on the configured pin, whatever
   came before it, the line is asserted iff the level of that call is
   non-zero. *)
C2_LastWriteWins ==
    (calls # <<>> /\ LastCall.op = "write" /\ Configured
        /\ LastCall.pin = calls[LastSetup].pin)
    => (Asserted <=> LastCall.value # 0)

\* a write of 0 that follows a write of a non-zero level on a configured pin
C2_Witness ==
    /\ Len(calls) >= 3 /\ Configured
    /\ LastCall.op = "write" /\ LastCall.value = 0
    /\ LastCall.pin = calls[LastSetup].pin
    /\ calls[Len(calls) - 1].op = "write" /\ calls[Len(calls) - 1].value = 2
    /\ ~Asserted

(* C3: in the simulation a gpio_write on a configured pin emits a trace line
   iff it changes the Logical Line State between asserted and deasserted. *)
C3_TraceIffTransition ==
    (image = "posix" /\ calls # <<>> /\ LastCall.op = "write" /\ Configured)
    => ((Emitted # <<>>) <=> (AssertedIn(pre) # Asserted))

(* C4: a gpio_write on a configured pin emits at most one trace line, and a
   second gpio_write with the same pin and level right after it changes
   neither the state nor the trace. *)
C4_RedundantWriteNoOp ==
    (calls # <<>> /\ LastCall.op = "write" /\ Configured
        /\ LastCall.pin = calls[LastSetup].pin)
    => /\ Len(Emitted) <= 1
       /\ (LastSetup < Len(calls) - 1 /\ calls[Len(calls) - 1] = LastCall)
          => /\ StateOf(Hw) = StateOf(pre)
             /\ Emitted = <<>>

\* the same write made twice in a row, the first of which changed the line
C4_Witness ==
    /\ Len(calls) = MaxCalls /\ Configured
    /\ LastCall.op = "write" /\ LastCall.value = 2
    /\ calls[Len(calls) - 1] = LastCall
    /\ calls[Len(calls) - 2].op = "write" /\ calls[Len(calls) - 2].value = 0
    /\ image = "posix" /\ Asserted

----------------------------------------------------------------------------
(* The simulation's trace since the most recent gpio_setup *)

\* the index in out of the most recent gpio_setup line, 0 when there is none
LastSetupLine ==
    LET idx == {i \in 1..Len(out) : out[i].kind = "setup"}
    IN  IF idx = {} THEN 0 ELSE CHOOSE i \in idx : \A j \in idx : j <= i

\* the ON / OFF events printed since the most recent gpio_setup
EventsSinceSetup ==
    [i \in 1..(Len(out) - LastSetupLine) |-> out[LastSetupLine + i].text]

\* the levels written since the most recent gpio_setup
LevelsSinceSetup ==
    [i \in 1..(Len(calls) - LastSetup) |-> calls[LastSetup + i].value]

\* the level changes of a sequence of levels in {0, 1}, starting from level cur
RECURSIVE Changes(_, _)
Changes(levels, cur) ==
    IF levels = <<>> THEN <<>>
    ELSE IF Head(levels) = cur THEN Changes(Tail(levels), cur)
    ELSE <<IF Head(levels) = 1 THEN "ON" ELSE "OFF">>
            \o Changes(Tail(levels), Head(levels))

(* C5: in the simulation, gpio_setup prints its own line and no ON / OFF
   event; after gpio_setup(12) the writes 1, 0, 1 print exactly ON, OFF, ON
   for pin 12; and for any writes of levels in {0, 1} since the last
   gpio_setup the events printed since are exactly the level changes from
   the deasserted state, so the first is ON and they alternate. *)
C5_EventsAreLevelChanges ==
    image = "posix" =>
    /\ (calls # <<>> /\ LastCall.op = "setup")
          => Emitted = <<SetupLine(LastCall.pin)>>
    /\ calls = <<Call("setup", 12, 0), Call("write", 12, 1),
                 Call("write", 12, 0), Call("write", 12, 1)>>
          => out = <<SetupLine(12), LedLine(12, 1), LedLine(12, 0),
                     LedLine(12, 1)>>
    /\ (LastSetup > 0 /\ \A i \in DOMAIN LevelsSinceSetup :
                              LevelsSinceSetup[i] \in {0, 1})
          => /\ EventsSinceSetup = Changes(LevelsSinceSetup, 0)
             /\ \A i \in DOMAIN EventsSinceSetup :
                   EventsSinceSetup[i] = IF i % 2 = 1 THEN "ON" ELSE "OFF"

\* the scenario: gpio_setup(12), then the writes 1, 0, 1 to pin 12
C5_Witness ==
    /\ image = "posix"
    /\ calls = <<Call("setup", 12, 0), Call("write", 12, 1),
                 Call("write", 12, 0), Call("write", 12, 1)>>
    /\ Len(out) = 4

(* C6: on the register back end every gpio_setup makes exactly four register
   stores, in this order: RCC_AHB1ENR with clock-enable bit 3 set, then
   GPIOD_MODER with both mode bits of pin 12 (24, 25) clear, then
   GPIOD_MODER with bit 24 set and bit 25 clear, then GPIOD_BSRR with only
   reset bit 28; so no port register is stored to before the clock enable. *)
C6_SetupStoreOrder ==
    (image = "stm32" /\ calls # <<>> /\ LastCall.op = "setup")
    => /\ Len(Stored) = 4
       /\ Stored[1].reg = "RCC_AHB1ENR" /\ 3 \in Stored[1].val
       /\ Stored[2].reg = "GPIOD_MODER"
       /\ 24 \notin Stored[2].val /\ 25 \notin Stored[2].val
       /\ Stored[3].reg = "GPIOD_MODER"
       /\ 24 \in Stored[3].val /\ 25 \notin Stored[3].val
       /\ Stored[4] = Store("GPIOD_BSRR", {28})

\* gpio_setup(12) on a part whose mode bits for pin 12 were both set
C6_Witness ==
    /\ image = "stm32" /\ calls # <<>>
    /\ LastCall = Call("setup", 12, 0)
    /\ {24, 25} \subseteq pre.GPIOD_MODER
    /\ Len(regwrites) >= 4

(* C7: sleep_ms(d) with d >= 0 returns no earlier than d milliseconds after
   it was entered: the timespec handed to nanosleep is at least d ms, the
   ticks handed to vTaskDelay last at least d ms, and the busy-wait made at
   least 16000 iterations per millisecond of d. *)
C7_DelayAtLeast ==
    (pc = "returned" /\ ms >= 0)
    => /\ image = "posix" => ts.tv_sec * 1000 + ts.tv_nsec \div 1000000 >= ms
       /\ image = "esp32" => ticks * portTICK_PERIOD_MS >= ms
       /\ image = "stm32" => spins \div CyclesPerMs >= ms

(* C8: on every back end a call of sleep_ms that was entered eventually
   returns to its caller. *)
C8_DelayReturns == (pc = "sleeping") ~> (pc = "returned")

(* C9: a gpio_write made before any gpio_setup changes no Logical Line
   State, drives no output and emits no trace line. *)
C9_WriteBeforeSetupInert ==
    LastSetup = 0
    => /\ out = <<>>
       /\ g_state = 0
       /\ ~(OutputIn(Hw) /\ Asserted)

(* C10: gpio_setup is idempotent: a second gpio_setup(p) of a valid pin p
   right after the first leaves the tracked pin and level, the registers
   RCC_AHB1ENR, GPIOD_MODER and the output latch, and the SDK drivers'
   state, as the first one left them. *)
C10_SetupIdempotent ==
    (Len(calls) >= 2 /\ LastCall.op = "setup" /\ ValidPin(LastCall.pin)
        /\ calls[Len(calls) - 1] = LastCall)
    => StateOf(Hw) = StateOf(pre)

\* gpio_setup(12) twice, right after a write that asserted the line
C10_Witness ==
    /\ Len(calls) >= 4 /\ image = "stm32"
    /\ LastCall = Call("setup", 12, 0) /\ calls[Len(calls) - 1] = LastCall
    /\ calls[Len(calls) - 2].op = "write" /\ calls[Len(calls) - 2].value # 0
    /\ calls[Len(calls) - 3].op = "setup"

(* C11: every driver loop calls gpio_setup once, before any gpio_write, and
   from then on alternates gpio_write(on) and gpio_write(off), every
   sleep_ms in between asking for the same period; so the line is asserted
   infinitely often and deasserted infinitely often. *)
C11_LoopBlinksForever ==
    /\ [][calls' # calls =>
            IF calls = <<>> THEN Last(calls').op = "setup"
            ELSE /\ Last(calls').op = "write"
                 /\ Last(calls').value =
                       (IF LastCall.op = "write" /\ LastCall.value = 1
                          THEN 0 ELSE 1)]_vars
    /\ [](pc = "sleeping" => ms = period)
    /\ []<>Asserted
    /\ []<>~Asserted

(* C12: no driver loop ever asks sleep_ms for a negative duration, whatever
   the argument the simulation was started with. *)
C12_NoNegativeDelay == pc = "sleeping" => ms >= 0

----------------------------------------------------------------------------
(* C13: on the SDK back ends, a gpio_setup with a pin the vendor driver
   rejects does not go on: while the image runs, the pin of that gpio_setup is
   not kept as the current pin, and the call leaves the pin state as it
   was. *)
C13_RejectedPinNotKept ==
    (image \in {"esp32", "rp2040"} /\ calls # <<>> /\ ~halted
        /\ LastSetup > 0 /\ ~ValidPin(calls[LastSetup].pin))
    => /\ led_pin # calls[LastSetup].pin
       /\ LastCall.op = "setup" => StateOf(Hw) = StateOf(pre)

(* C14: each configured pin has its own Logical Line State: once two
   different valid pins p and q were configured, a gpio_write(p, l) sets the
   state of p only; in the simulation the trace line it emits is tagged with
   p, and on the SDK back ends the latch of p follows l while every other
   latch stays as it was. *)
C14_PerPinState ==
    (/\ calls # <<>> /\ LastCall.op = "write" /\ ~halted
     /\ ValidPin(LastCall.pin)
     /\ \E i, j \in 1..(Len(calls) - 1) :
           /\ calls[i].op = "setup" /\ calls[i].pin = LastCall.pin
           /\ calls[j].op = "setup" /\ calls[j].pin # LastCall.pin
           /\ ValidPin(calls[j].pin))
    => /\ image = "posix" =>
             \A i \in 1..Len(Emitted) : Emitted[i].pin = LastCall.pin
       /\ image \in {"esp32", "rp2040"} =>
             /\ drv_out \ {LastCall.pin} = pre.drv_out \ {LastCall.pin}
             /\ LastCall.pin \in drv_out <=> LastCall.value # 0

(* C15: on the register back end every gpio_write makes exactly one register
   store, to GPIOD_BSRR, with exactly one bit set: bit 12 when the level is
   non-zero, bit 28 (12 + 16) when it is zero; it leaves RCC_AHB1ENR and
   GPIOD_MODER as they were. *)
C15_WriteOneBsrrStore ==
    (image = "stm32" /\ calls # <<>> /\ LastCall.op = "write")
    => /\ Stored = << Store("GPIOD_BSRR",
                            IF LastCall.value # 0 THEN {12} ELSE {28}) >>
       /\ RCC_AHB1ENR = pre.RCC_AHB1ENR
       /\ GPIOD_MODER = pre.GPIOD_MODER

\* a gpio_write of 0 on the configured line, right after a gpio_write that
\* had set it
C15_Witness ==
    /\ image = "stm32" /\ Len(calls) >= 3 /\ Configured
    /\ LastCall.op = "write" /\ LastCall.value = 0
    /\ calls[Len(calls) - 1].op = "write" /\ calls[Len(calls) - 1].value = 1
    /\ LED \in pre.GPIOD_ODR /\ LED \notin GPIOD_ODR

----------------------------------------------------------------------------
\* the index in out of the most recent ON / OFF line, 0 when there is none
LastLedLine ==
    LET idx == {i \in 1..Len(out) : out[i].kind = "LED"}
    IN  IF idx = {} THEN 0 ELSE CHOOSE i \in idx : \A j \in idx : j <= i

(* C16: in the simulation, in every state the gpio_setup and gpio_write
   calls reach, the tracked level agrees with the simulated output: the most
   recent ON / OFF line reports ON iff the tracked state is asserted, and the
   tracked state is deasserted while no ON / OFF line was printed.  Stated
   for the histories that begin with a gpio_setup. *)
C16_TrackedAgreesWithTrace ==
    (image = "posix" /\ calls # <<>> /\ calls[1].op = "setup") =>
        IF LastLedLine = 0 THEN g_state = 0
        ELSE (out[LastLedLine].text = "ON") <=> (g_state # 0)

----------------------------------------------------------------------------
(* The simulation run side by side: runner.c's gpio_setup and gpio_write
   replayed on a call log *)

RECURSIVE SimState(_)
\* g_state after the calls of log, from the static initialiser g_state = 0
SimState(log) ==
    IF log = <<>> THEN 0
    ELSE LET st == SimState(SubSeq(log, 1, Len(log) - 1))
             c  == Last(log)
         IN  IF c.op = "setup" THEN 0
             ELSE IF c.value # st THEN c.value ELSE st

\* every call so far named pin 12
OnPin12 == \A i \in 1..Len(calls) : calls[i].pin = 12

(* C17: the back ends run side by side on the same gpio_setup(12) and
   gpio_write(12, l) calls agree after every call: the simulation's state is
   asserted iff the last GPIOD_BSRR store of the register back end set bit 12
   (and, with the port clocked, iff output bit 12 is high), and iff the SDK
   back ends' last driven level is high. *)
C17_BackEndsAgree ==
    (calls # <<>> /\ OnPin12) =>
       /\ image = "posix" => g_state = SimState(calls)
       /\ image = "stm32" =>
             /\ (12 \in Last(regwrites).val) <=> (SimState(calls) # 0)
             /\ Last(regwrites).reg = "GPIOD_BSRR"
             /\ 3 \in RCC_AHB1ENR =>
                   ((12 \in GPIOD_ODR) <=> (SimState(calls) # 0))
       /\ image \in {"esp32", "rp2040"} =>
             (led_pin \in drv_out <=> SimState(calls) # 0)

\* the register back end after gpio_setup(12) and then a gpio_write(12, 2)
\* that set the line, where the simulation tracks level 2
C17_Witness ==
    /\ image = "stm32" /\ calls # <<>> /\ OnPin12 /\ LastSetup > 0
    /\ LastCall.op = "write" /\ LastCall.value = 2
    /\ SimState(calls) = 2
    /\ 12 \in GPIOD_ODR /\ 12 \notin pre.GPIOD_ODR
====
